---- MODULE Spec2Model ----
(***************************************************************************)
(* MWAAStack.__init__ (modules/orchestration/mwaa/stack.py) as a state     *)
(* machine: one action per statement group of the constructor, in source   *)
(* order.  Strings are TLA+ strings; f-strings are concatenations (\o) and *)
(* Python slices are PySlice.  CDK tokens (values unresolved at synthesis  *)
(* time) are opaque "${Token[...]}" strings, as CDK encodes them.          *)
(***************************************************************************)
EXTENDS Integers, Sequences, FiniteSets, TLC

VARIABLES
    pc,                  \* position in __init__
    project_name, deployment_name, module_name,
    dag_bucket_name,     \* Optional[str]: {} is None, {s} is the string s
    private_subnet_ids,  \* List[str]
    stack_region,        \* self.region  (env passed through **kwargs)
    stack_account,       \* self.account (env passed through **kwargs)
    dep_mod, full_dep_mod,
    tags,                \* Tags.of(self): set of <<key, value>>
    constructs,          \* children declared in the stack, in declaration order
    dag_bucket,          \* the bucket handle
    mwaa_policy_document,
    mwaa_service_role,
    mwaa_network_configuration,
    mwaa_environment,
    suppressions         \* NagSuppressions recorded on the stack

vars == <<pc, project_name, deployment_name, module_name, dag_bucket_name,
          private_subnet_ids, stack_region, stack_account, dep_mod, full_dep_mod,
          tags, constructs, dag_bucket, mwaa_policy_document, mwaa_service_role,
          mwaa_network_configuration, mwaa_environment, suppressions>>

----------------------------------------------------------------------------
(* Bounds of the model *)

MaxNameLen == 127
MaxSubnets == 3

(* Limits the source names *)

TagValueLimit == 256
EnvNameLimit == 80

----------------------------------------------------------------------------
(* Strings and lists *)

Min(a, b) == IF a < b THEN a ELSE b

RECURSIVE Rep(_, _)
Rep(c, n) ==
    IF n = 0 THEN ""
    ELSE LET half == Rep(c, n \div 2)
         IN  half \o half \o (IF n % 2 = 1 THEN c ELSE "")

\* s[lo:hi] with 0 <= lo, 0 <= hi: Python clamps both ends to len(s)
PySlice_OffByOne(s, lo, hi) == SubSeq(s, lo + 1, Min(hi + 1, Len(s)))

PySlice(s, lo, hi) == SubSeq(s, lo + 1, Min(hi, Len(s)))

IsPrefix(p, s) == Len(p) <= Len(s) /\ SubSeq(s, 1, Len(p)) = p

Contains(s, sub) ==
    \E i \in 1..(Len(s) - Len(sub) + 1) : SubSeq(s, i, i + Len(sub) - 1) = sub

\* truthiness of an Optional[str]: None and "" are falsy
Truthy(opt) == opt # {} /\ opt # {""}

StrOf(opt) == CHOOSE s \in opt : TRUE

----------------------------------------------------------------------------
(* CDK tokens *)

account == "${Token[AWS.AccountId]}"
region == "${Token[AWS.Region]}"
partition == "${Token[AWS.Partition]}"

----------------------------------------------------------------------------
(* IAM policy statements *)

\* aws_iam.PolicyStatement: effect defaults to ALLOW
PolicyStatement(actions, resources, not_resources, conditions) ==
    [actions |-> actions, effect |-> "ALLOW", resources |-> resources,
     not_resources |-> not_resources, conditions |-> conditions]

Condition(op, key, value) == [op |-> op, key |-> key, value |-> value]

AirflowStatement ==
    PolicyStatement(
        <<"airflow:PublishMetrics">>,
        <<"arn:aws:airflow:" \o region \o ":" \o account \o ":environment/"
            \o project_name \o "-" \o deployment_name \o "-*">>,
        <<>>, <<>>)

BatchStatement ==
    PolicyStatement(
        <<"batch:SubmitJob">>,
        <<"arn:aws:airflow:" \o region \o ":" \o account \o ":environment/"
            \o project_name \o "-" \o deployment_name \o "-*">>,
        <<>>, <<>>)

EksStatement ==
    PolicyStatement(
        <<"eks:DescribeCluster">>,
        <<"arn:aws:eks:" \o region \o ":" \o account \o ":cluster/"
            \o project_name \o "-" \o deployment_name \o "-*">>,
        <<>>, <<>>)

S3Statement_ObjectsOnly ==
    PolicyStatement(
        <<"s3:GetBucket*", "s3:GetObject*", "s3:PutObject", "s3:PutObjectAcl",
          "s3:List*", "s3:PutObjectTagging">>,
        <<dag_bucket.bucket_arn \o "/*">>,
        <<>>, <<>>)

S3Statement ==
    PolicyStatement(
        <<"s3:GetBucket*", "s3:GetObject*", "s3:PutObject", "s3:PutObjectAcl",
          "s3:List*", "s3:PutObjectTagging">>,
        <<dag_bucket.bucket_arn \o "/*", dag_bucket.bucket_arn>>,
        <<>>, <<>>)

KmsStatement ==
    PolicyStatement(
        <<"kms:Decrypt", "kms:Encrypt", "kms:ReEncrypt*", "kms:DescribeKey",
          "kms:GenerateDataKey">>,
        <<>>,
        <<"arn:aws:kms:*:" \o account \o ":key/*">>,
        <<Condition("StringLike", "kms:ViaService", "sqs." \o region \o ".amazonaws.com")>>)

LogsStatement ==
    PolicyStatement(
        <<"logs:CreateLogStream", "logs:CreateLogGroup", "logs:PutLogEvents",
          "logs:GetLogEvents", "logs:GetLogRecord", "logs:GetLogGroupFields",
          "logs:GetQueryResults", "logs:DescribeLogGroups">>,
        <<"arn:aws:logs:" \o region \o ":" \o account \o ":log-group:airflow-"
            \o project_name \o "*">>,
        <<>>, <<>>)

DescribeLogGroupsStatement ==
    PolicyStatement(
        <<"logs:DescribeLogGroups">>,
        <<"arn:aws:logs::" \o account \o ":*">>,
        <<>>, <<>>)

CloudwatchStatement ==
    PolicyStatement(<<"cloudwatch:PutMetricData">>, <<"*">>, <<>>, <<>>)

SqsStatement ==
    PolicyStatement(
        <<"sqs:ChangeMessageVisibility", "sqs:DeleteMessage", "sqs:GetQueueAttributes",
          "sqs:GetQueueUrl", "sqs:ReceiveMessage", "sqs:SendMessage">>,
        <<"arn:aws:sqs:" \o region \o ":*:airflow-celery-*">>,
        <<>>, <<>>)

StsStatement ==
    PolicyStatement(
        <<"sts:AssumeRole">>,
        <<"arn:aws:iam::" \o account \o ":role/" \o project_name \o "-*">>,
        <<>>, <<>>)

DynamodbStatement ==
    PolicyStatement(
        <<"dynamodb:*">>,
        <<"arn:aws:dynamodb:" \o stack_region \o ":" \o stack_account \o ":"
            \o "table/" \o project_name \o "-" \o deployment_name \o "-"
            \o module_name \o "*">>,
        <<>>, <<>>)

SagemakerStatement ==
    PolicyStatement(
        <<"sagemaker:CreateProcessingJob", "sagemaker:DescribeProcessingJob",
          "sagemaker:ListProcessingJob">>,
        <<"arn:aws:sagemaker:" \o stack_region \o ":" \o stack_account
            \o ":processing-job/*">>,
        <<>>, <<>>)

EmrServerlessStatement ==
    PolicyStatement(
        <<"emr-serverless:CreateApplication", "emr-serverless:GetApplication",
          "emr-serverless:StartApplication", "emr-serverless:StopApplication",
          "emr-serverless:DeleteApplication", "emr-serverless:StartJobRun",
          "emr-serverless:GetJobRun">>,
        <<"arn:aws:emr-serverless:" \o stack_region \o ":" \o stack_account
            \o ":/applications/*">>,
        <<>>, <<>>)

\* a catalogue that lost its last entry
PolicyDocument_Short ==
    <<AirflowStatement, BatchStatement, EksStatement, S3Statement, KmsStatement,
      LogsStatement, DescribeLogGroupsStatement, CloudwatchStatement, SqsStatement,
      StsStatement, DynamodbStatement, SagemakerStatement>>

\* aws_iam.PolicyDocument(statements=[...])
PolicyDocument ==
    <<AirflowStatement, BatchStatement, EksStatement, S3Statement, KmsStatement,
      LogsStatement, DescribeLogGroupsStatement, CloudwatchStatement, SqsStatement,
      StsStatement, DynamodbStatement, SagemakerStatement, EmrServerlessStatement>>

PassRoleSagemakerStatement ==
    PolicyStatement(
        <<"iam:PassRole">>, <<"*">>, <<>>,
        <<Condition("StringEquals", "iam:PassedToService", "sagemaker.amazonaws.com")>>)

\* the service pattern widened to every AWS service principal
PassRoleEmrStatement_AnyService ==
    PolicyStatement(
        <<"iam:PassRole">>, <<"*">>, <<>>,
        <<Condition("StringLike", "iam:PassedToService", "*.amazonaws.com")>>)

PassRoleEmrStatement ==
    PolicyStatement(
        <<"iam:PassRole">>, <<"*">>, <<>>,
        <<Condition("StringLike", "iam:PassedToService", "emr-serverless.amazonaws.com")>>)

\* the statements in force on the role: the inline document, then the
\* statements add_to_policy appended
RolePolicy == mwaa_service_role.inline_policy \o mwaa_service_role.added_statements

----------------------------------------------------------------------------
(* IAM evaluation of the pieces the statements use *)

\* StringLike: case-sensitive match, * any run of characters, ? any one
RECURSIVE StringLike(_, _)
StringLike(value, pattern) ==
    IF pattern = "" THEN value = ""
    ELSE LET h  == SubSeq(pattern, 1, 1)
             pt == SubSeq(pattern, 2, Len(pattern))
             vt == SubSeq(value, 2, Len(value))
         IN  IF h = "*"
             THEN StringLike(value, pt) \/ (value # "" /\ StringLike(vt, pattern))
             ELSE /\ value # ""
                  /\ (h = "?" \/ h = SubSeq(value, 1, 1))
                  /\ StringLike(vt, pt)

StringEquals(value, pattern) == value = pattern

\* a statement's conditions on `key`, for a request whose `key` is `value`
ConditionsSatisfied(stmt, key, value) ==
    \A i \in 1..Len(stmt.conditions) :
        LET c == stmt.conditions[i] IN
        c.key = key =>
            IF c.op = "StringEquals" THEN StringEquals(value, c.value)
            ELSE StringLike(value, c.value)

\* arn:partition:service:region:account:resource -- the k-th field
RECURSIVE IndexOfColon(_, _)
IndexOfColon(s, i) ==
    IF i > Len(s) THEN Len(s) + 1
    ELSE IF SubSeq(s, i, i) = ":" THEN i
    ELSE IndexOfColon(s, i + 1)

RECURSIVE ArnFieldStart(_, _)
ArnFieldStart(s, k) ==
    IF k = 1 THEN 1 ELSE IndexOfColon(s, ArnFieldStart(s, k - 1)) + 1

ArnField(s, k) ==
    LET b == ArnFieldStart(s, k) IN SubSeq(s, b, IndexOfColon(s, b) - 1)

ArnService(s) == ArnField(s, 3)

----------------------------------------------------------------------------
(* Constructor inputs *)

NameLens == {1, MaxNameLen - 1, MaxNameLen}
ProjectNames == {Rep("p", n) : n \in NameLens}
DeploymentNames == {Rep("d", n) : n \in NameLens}
ModuleNames == {Rep("m", n) : n \in NameLens}
DagBucketNames == {{}, {""}, {"my-dag-bucket"}}
SubnetIds == {"subnet-a", "subnet-b"}
SubnetLists == UNION {[1..n -> SubnetIds] : n \in 0..MaxSubnets}
StackRegions == {"us-east-1", "eu-west-1"}
StackAccounts == {"111122223333"}

----------------------------------------------------------------------------
(* The constructor *)

NoBucket ==
    [declared |-> FALSE, created |-> FALSE, bucket_arn |-> "", bucket_name |-> "",
     versioned |-> FALSE, encryption |-> "", block_public_access |-> "",
     enforce_ssl |-> FALSE, removal_policy |-> ""]

NoRole ==
    [declared |-> FALSE, role_arn |-> "", assumed_by |-> {}, inline_policy |-> <<>>,
     added_statements |-> <<>>, managed_policies |-> <<>>, path |-> ""]

NoNetwork == [declared |-> FALSE, security_group_ids |-> <<>>, subnet_ids |-> <<>>]

NoEnvironment ==
    [declared |-> FALSE, name |-> "", execution_role_arn |-> "",
     network_configuration |-> NoNetwork, source_bucket_arn |-> "",
     plugins_s3_path |-> "", webserver_access_mode |-> "", dependencies |-> {}]

Init ==
    /\ pc = "names"
    /\ project_name \in ProjectNames
    /\ deployment_name \in DeploymentNames
    /\ module_name \in ModuleNames
    /\ dag_bucket_name \in DagBucketNames
    /\ private_subnet_ids \in SubnetLists
    /\ stack_region \in StackRegions
    /\ stack_account \in StackAccounts
    /\ dep_mod = ""
    /\ full_dep_mod = ""
    /\ tags = {}
    /\ constructs = <<>>
    /\ dag_bucket = NoBucket
    /\ mwaa_policy_document = <<>>
    /\ mwaa_service_role = NoRole
    /\ mwaa_network_configuration = NoNetwork
    /\ mwaa_environment = NoEnvironment
    /\ suppressions = <<>>

inputs == <<project_name, deployment_name, module_name, dag_bucket_name,
            private_subnet_ids, stack_region, stack_account>>

\* the second PassRole append moved below the environment declaration
StepAfter_LatePassRole(step) ==
    CASE step = "names" -> "stack"
      [] step = "stack" -> "vpc"
      [] step = "vpc" -> "dag_bucket"
      [] step = "dag_bucket" -> "plugins_deployment"
      [] step = "plugins_deployment" -> "requirements_deployment"
      [] step = "requirements_deployment" -> "policy_document"
      [] step = "policy_document" -> "service_role"
      [] step = "service_role" -> "passrole_sagemaker"
      [] step = "passrole_sagemaker" -> "security_group"
      [] step = "security_group" -> "network_configuration"
      [] step = "network_configuration" -> "environment"
      [] step = "environment" -> "passrole_emr"
      [] step = "passrole_emr" -> "depend_plugins"
      [] step = "depend_plugins" -> "depend_requirements"
      [] step = "depend_requirements" -> "attributes"
      [] step = "attributes" -> "suppressions"
      [] step = "suppressions" -> "done"

\* the order of the statements of __init__
StepAfter(step) ==
    CASE step = "names" -> "stack"
      [] step = "stack" -> "vpc"
      [] step = "vpc" -> "dag_bucket"
      [] step = "dag_bucket" -> "plugins_deployment"
      [] step = "plugins_deployment" -> "requirements_deployment"
      [] step = "requirements_deployment" -> "policy_document"
      [] step = "policy_document" -> "service_role"
      [] step = "service_role" -> "passrole_sagemaker"
      [] step = "passrole_sagemaker" -> "passrole_emr"
      [] step = "passrole_emr" -> "security_group"
      [] step = "security_group" -> "network_configuration"
      [] step = "network_configuration" -> "environment"
      [] step = "environment" -> "depend_plugins"
      [] step = "depend_plugins" -> "depend_requirements"
      [] step = "depend_requirements" -> "attributes"
      [] step = "attributes" -> "suppressions"
      [] step = "suppressions" -> "done"

Declare(id, type) == constructs' = Append(constructs, [id |-> id, type |-> type])

DepMod == project_name \o "-" \o deployment_name \o "-" \o module_name

FullDepMod_NoTruncation(d) == d

FullDepMod(d) == IF Len(d) > TagValueLimit THEN PySlice(d, 0, TagValueLimit) ELSE d

ComputeNames ==
    /\ pc = "names"
    /\ dep_mod' = DepMod
    /\ full_dep_mod' = FullDepMod(dep_mod')
    /\ pc' = StepAfter(pc)
    /\ UNCHANGED <<inputs, tags, constructs, dag_bucket, mwaa_policy_document,
                   mwaa_service_role, mwaa_network_configuration, mwaa_environment,
                   suppressions>>

StackInit ==
    /\ pc = "stack"
    /\ tags' = tags \cup {<<"Deployment", full_dep_mod>>}
    /\ pc' = StepAfter(pc)
    /\ UNCHANGED <<inputs, dep_mod, full_dep_mod, constructs, dag_bucket,
                   mwaa_policy_document, mwaa_service_role,
                   mwaa_network_configuration, mwaa_environment, suppressions>>

VpcLookup ==
    /\ pc = "vpc"
    /\ Declare("VPC", "ec2.Vpc.from_lookup")
    /\ pc' = StepAfter(pc)
    /\ UNCHANGED <<inputs, dep_mod, full_dep_mod, tags, dag_bucket,
                   mwaa_policy_document, mwaa_service_role,
                   mwaa_network_configuration, mwaa_environment, suppressions>>

ImportedBucket ==
    [declared |-> TRUE, created |-> FALSE,
     bucket_arn |-> "arn:" \o partition \o ":s3:::" \o StrOf(dag_bucket_name),
     bucket_name |-> StrOf(dag_bucket_name),
     versioned |-> FALSE, encryption |-> "", block_public_access |-> "",
     enforce_ssl |-> FALSE, removal_policy |-> ""]

CreatedBucket ==
    [declared |-> TRUE, created |-> TRUE,
     bucket_arn |-> "${Token[airflow-dag-bucket.Arn]}",
     bucket_name |-> dep_mod \o "-" \o account \o "-" \o region,
     versioned |-> TRUE, encryption |-> "KMS_MANAGED",
     block_public_access |-> "BLOCK_ALL", enforce_ssl |-> TRUE,
     removal_policy |-> "DESTROY"]

DagBucket_AlwaysCreate ==
    /\ pc = "dag_bucket"
    /\ dag_bucket' = CreatedBucket
    /\ Declare("airflow-dag-bucket", "aws_s3.Bucket")
    /\ pc' = StepAfter(pc)
    /\ UNCHANGED <<inputs, dep_mod, full_dep_mod, tags, mwaa_policy_document,
                   mwaa_service_role, mwaa_network_configuration, mwaa_environment,
                   suppressions>>

DagBucket ==
    /\ pc = "dag_bucket"
    /\ \/ /\ Truthy(dag_bucket_name)
          /\ dag_bucket' = ImportedBucket
          /\ Declare("airflow-dag-bucket", "aws_s3.Bucket.from_bucket_name")
       \/ /\ ~Truthy(dag_bucket_name)
          /\ dag_bucket' = CreatedBucket
          /\ Declare("airflow-dag-bucket", "aws_s3.Bucket")
    /\ pc' = StepAfter(pc)
    /\ UNCHANGED <<inputs, dep_mod, full_dep_mod, tags, mwaa_policy_document,
                   mwaa_service_role, mwaa_network_configuration, mwaa_environment,
                   suppressions>>

PluginsDeployment ==
    /\ pc = "plugins_deployment"
    /\ Declare("airflow-dag-plugins", "aws_s3_deployment.BucketDeployment")
    /\ pc' = StepAfter(pc)
    /\ UNCHANGED <<inputs, dep_mod, full_dep_mod, tags, dag_bucket,
                   mwaa_policy_document, mwaa_service_role,
                   mwaa_network_configuration, mwaa_environment, suppressions>>

RequirementsDeployment ==
    /\ pc = "requirements_deployment"
    /\ Declare("airflow-dag-requirements", "aws_s3_deployment.BucketDeployment")
    /\ pc' = StepAfter(pc)
    /\ UNCHANGED <<inputs, dep_mod, full_dep_mod, tags, dag_bucket,
                   mwaa_policy_document, mwaa_service_role,
                   mwaa_network_configuration, mwaa_environment, suppressions>>

BuildPolicyDocument ==
    /\ pc = "policy_document"
    /\ mwaa_policy_document' = PolicyDocument
    /\ pc' = StepAfter(pc)
    /\ UNCHANGED <<inputs, dep_mod, full_dep_mod, tags, constructs, dag_bucket,
                   mwaa_service_role, mwaa_network_configuration, mwaa_environment,
                   suppressions>>

CreateServiceRole ==
    /\ pc = "service_role"
    /\ mwaa_service_role' =
          [declared |-> TRUE,
           role_arn |-> "${Token[mwaa-service-role.Arn]}",
           assumed_by |-> {"airflow.amazonaws.com", "airflow-env.amazonaws.com"},
           inline_policy |-> mwaa_policy_document,
           added_statements |-> <<>>,
           managed_policies |-> <<"AWSBatchFullAccess", "AWSXRayDaemonWriteAccess">>,
           path |-> "/service-role/"]
    /\ Declare("mwaa-service-role", "aws_iam.Role")
    /\ pc' = StepAfter(pc)
    /\ UNCHANGED <<inputs, dep_mod, full_dep_mod, tags, dag_bucket,
                   mwaa_policy_document, mwaa_network_configuration,
                   mwaa_environment, suppressions>>

\* Role.add_to_policy
AddToPolicy(stmt) ==
    mwaa_service_role' =
        [mwaa_service_role EXCEPT !.added_statements = Append(@, stmt)]

AddPassRoleSagemaker ==
    /\ pc = "passrole_sagemaker"
    /\ AddToPolicy(PassRoleSagemakerStatement)
    /\ pc' = StepAfter(pc)
    /\ UNCHANGED <<inputs, dep_mod, full_dep_mod, tags, constructs, dag_bucket,
                   mwaa_policy_document, mwaa_network_configuration,
                   mwaa_environment, suppressions>>

AddPassRoleEmr ==
    /\ pc = "passrole_emr"
    /\ AddToPolicy(PassRoleEmrStatement)
    /\ pc' = StepAfter(pc)
    /\ UNCHANGED <<inputs, dep_mod, full_dep_mod, tags, constructs, dag_bucket,
                   mwaa_policy_document, mwaa_network_configuration,
                   mwaa_environment, suppressions>>

SecurityGroup ==
    /\ pc = "security_group"
    /\ Declare("mwaa-sg", "ec2.SecurityGroup")
    /\ pc' = StepAfter(pc)
    /\ UNCHANGED <<inputs, dep_mod, full_dep_mod, tags, dag_bucket,
                   mwaa_policy_document, mwaa_service_role,
                   mwaa_network_configuration, mwaa_environment, suppressions>>

NetworkConfiguration ==
    /\ pc = "network_configuration"
    /\ mwaa_network_configuration' =
          [declared |-> TRUE,
           security_group_ids |-> <<"${Token[mwaa-sg.GroupId]}">>,
           subnet_ids |-> PySlice(private_subnet_ids, 0, 2)]
    /\ pc' = StepAfter(pc)
    /\ UNCHANGED <<inputs, dep_mod, full_dep_mod, tags, constructs, dag_bucket,
                   mwaa_policy_document, mwaa_service_role, mwaa_environment,
                   suppressions>>

CreateEnvironment ==
    /\ pc = "environment"
    /\ mwaa_environment' =
          [declared |-> TRUE,
           name |-> dep_mod \o "-environment",
           execution_role_arn |-> mwaa_service_role.role_arn,
           network_configuration |-> mwaa_network_configuration,
           source_bucket_arn |-> dag_bucket.bucket_arn,
           plugins_s3_path |-> "plugins/plugins.zip",
           webserver_access_mode |-> "PUBLIC_ONLY",
           dependencies |-> {}]
    /\ Declare("mwaa-environment", "aws_mwaa.CfnEnvironment")
    /\ pc' = StepAfter(pc)
    /\ UNCHANGED <<inputs, dep_mod, full_dep_mod, tags, dag_bucket,
                   mwaa_policy_document, mwaa_service_role,
                   mwaa_network_configuration, suppressions>>

\* node.add_dependency: the node keeps its dependencies as a set
AddDependency(id) ==
    mwaa_environment' = [mwaa_environment EXCEPT !.dependencies = @ \cup {id}]

DependOnPlugins ==
    /\ pc = "depend_plugins"
    /\ AddDependency("airflow-dag-plugins")
    /\ pc' = StepAfter(pc)
    /\ UNCHANGED <<inputs, dep_mod, full_dep_mod, tags, constructs, dag_bucket,
                   mwaa_policy_document, mwaa_service_role,
                   mwaa_network_configuration, suppressions>>

\* the first add_dependency line copied without changing its argument
DependOnRequirements_Copied ==
    /\ pc = "depend_requirements"
    /\ AddDependency("airflow-dag-plugins")
    /\ pc' = StepAfter(pc)
    /\ UNCHANGED <<inputs, dep_mod, full_dep_mod, tags, constructs, dag_bucket,
                   mwaa_policy_document, mwaa_service_role,
                   mwaa_network_configuration, suppressions>>

DependOnRequirements ==
    /\ pc = "depend_requirements"
    /\ AddDependency("airflow-dag-requirements")
    /\ pc' = StepAfter(pc)
    /\ UNCHANGED <<inputs, dep_mod, full_dep_mod, tags, constructs, dag_bucket,
                   mwaa_policy_document, mwaa_service_role,
                   mwaa_network_configuration, suppressions>>

\* self.dag_bucket, self.dag_path, self.mwaa_environment; the cdk_nag aspect
SetAttributes ==
    /\ pc = "attributes"
    /\ pc' = StepAfter(pc)
    /\ UNCHANGED <<inputs, dep_mod, full_dep_mod, tags, constructs, dag_bucket,
                   mwaa_policy_document, mwaa_service_role,
                   mwaa_network_configuration, mwaa_environment, suppressions>>

AddSuppressions ==
    /\ pc = "suppressions"
    /\ suppressions' = suppressions \o
          <<"AwsSolutions-S1", "AwsSolutions-S5", "AwsSolutions-IAM5", "AwsSolutions-IAM4">>
    /\ pc' = StepAfter(pc)
    /\ UNCHANGED <<inputs, dep_mod, full_dep_mod, tags, constructs, dag_bucket,
                   mwaa_policy_document, mwaa_service_role,
                   mwaa_network_configuration, mwaa_environment>>

Next ==
    \/ ComputeNames
    \/ StackInit
    \/ VpcLookup
    \/ DagBucket
    \/ PluginsDeployment
    \/ RequirementsDeployment
    \/ BuildPolicyDocument
    \/ CreateServiceRole
    \/ AddPassRoleSagemaker
    \/ AddPassRoleEmr
    \/ SecurityGroup
    \/ NetworkConfiguration
    \/ CreateEnvironment
    \/ DependOnPlugins
    \/ DependOnRequirements
    \/ SetAttributes
    \/ AddSuppressions

Spec == Init /\ [][Next]_vars

----------------------------------------------------------------------------
(* Properties *)

Range(seq) == {seq[i] : i \in 1..Len(seq)}

Returned == pc = "done"

Grants(stmt, action) == action \in Range(stmt.actions)

\* C1: once the constructor has returned, the role's policy has exactly 15
\* statements -- the 13 of the inline document followed by the 2 iam:PassRole
\* statements appended with add_to_policy -- and each has a non-empty action list.
C1_FifteenStatements ==
    Returned =>
        /\ Len(RolePolicy) = 15
        /\ Len(mwaa_service_role.inline_policy) = 13
        /\ mwaa_service_role.inline_policy = mwaa_policy_document
        /\ \A i \in 1..13 : ~Grants(RolePolicy[i], "iam:PassRole")
        /\ \A i \in 14..15 : RolePolicy[i].actions = <<"iam:PassRole">>
        /\ \A i \in 1..15 : Len(RolePolicy[i].actions) > 0

C1_Witness ==
    /\ Returned
    /\ Len(mwaa_service_role.added_statements) = 2
    /\ Len(project_name) = MaxNameLen
    /\ dag_bucket.created

S3ObjectStatements ==
    {i \in 1..Len(RolePolicy) :
        Grants(RolePolicy[i], "s3:GetObject*") /\ Grants(RolePolicy[i], "s3:PutObject")}

\* C2: in both bucket branches the statement granting the s3 object read/write
\* actions has exactly the two resources {arn} and {arn}/*, arn the DAG bucket's
\* ARN, and no other statement of the role's policy mentions that ARN.
C2_BucketArnScope ==
    mwaa_service_role.declared =>
        LET arn == dag_bucket.bucket_arn IN
        /\ Cardinality(S3ObjectStatements) = 1
        /\ \A i \in S3ObjectStatements :
              /\ Len(RolePolicy[i].resources) = 2
              /\ Range(RolePolicy[i].resources) = {arn, arn \o "/*"}
        /\ \A j \in (1..Len(RolePolicy)) \ S3ObjectStatements :
              /\ \A r \in Range(RolePolicy[j].resources) : ~Contains(r, arn)
              /\ \A r \in Range(RolePolicy[j].not_resources) : ~Contains(r, arn)

C2_Witness ==
    /\ Returned
    /\ ~dag_bucket.created
    /\ dag_bucket.bucket_arn = "arn:" \o partition \o ":s3:::my-dag-bucket"
    /\ S3ObjectStatements = {4}

PassedToServiceValues ==
    {"sagemaker.amazonaws.com", "emr-serverless.amazonaws.com", "ec2.amazonaws.com",
     "SageMaker.amazonaws.com", "emr-serverless.amazonaws.com.cn",
     "xemr-serverless.amazonaws.com", "amazonaws.com", "*", ""}

PassRoleStatements ==
    {i \in 1..Len(RolePolicy) : Grants(RolePolicy[i], "iam:PassRole")}

PassRoleMatches(i, service) ==
    ConditionsSatisfied(RolePolicy[i], "iam:PassedToService", service)

\* C3: for every value of iam:PassedToService at most one of the two PassRole
\* conditions is satisfied; sagemaker.amazonaws.com satisfies only the first,
\* emr-serverless.amazonaws.com only the second.
C3_PassRoleExclusive ==
    Returned =>
        /\ PassRoleStatements = {14, 15}
        /\ \A v \in PassedToServiceValues :
              ~(PassRoleMatches(14, v) /\ PassRoleMatches(15, v))
        /\ PassRoleMatches(14, "sagemaker.amazonaws.com")
        /\ ~PassRoleMatches(15, "sagemaker.amazonaws.com")
        /\ PassRoleMatches(15, "emr-serverless.amazonaws.com")
        /\ ~PassRoleMatches(14, "emr-serverless.amazonaws.com")

C3_Witness ==
    /\ Returned
    /\ Cardinality(PassRoleStatements) = 2
    /\ \E i \in PassRoleStatements : PassRoleMatches(i, "emr-serverless.amazonaws.com")
    /\ \E i \in PassRoleStatements : ~PassRoleMatches(i, "emr-serverless.amazonaws.com")

NewBuckets == {i \in 1..Len(constructs) : constructs[i].type = "aws_s3.Bucket"}

\* C4 as stated: whenever dag_bucket_name is supplied (is not None) no new bucket
\* is declared and the handle is a reference to the given name; a bucket is
\* created only when dag_bucket_name is not supplied.
C4_Original ==
    dag_bucket.declared =>
        /\ dag_bucket_name # {} =>
              /\ NewBuckets = {}
              /\ ~dag_bucket.created
              /\ dag_bucket.bucket_name \in dag_bucket_name
        /\ NewBuckets # {} => dag_bucket_name = {}

\* C4 (amended): whenever a non-empty dag_bucket_name is supplied no new bucket
\* is declared and the handle is a reference to the given name; the bucket
\* (versioned, KMS-managed, public access blocked, SSL enforced) is created only
\* when dag_bucket_name is None or the empty string.
C4_NoBucketForNonEmptyName ==
    dag_bucket.declared =>
        /\ (dag_bucket_name # {} /\ dag_bucket_name # {""}) =>
              /\ NewBuckets = {}
              /\ ~dag_bucket.created
              /\ dag_bucket.bucket_name \in dag_bucket_name
        /\ NewBuckets # {} =>
              /\ dag_bucket_name \in {{}, {""}}
              /\ Cardinality(NewBuckets) = 1
              /\ dag_bucket.created
              /\ dag_bucket.versioned
              /\ dag_bucket.encryption = "KMS_MANAGED"
              /\ dag_bucket.block_public_access = "BLOCK_ALL"
              /\ dag_bucket.enforce_ssl

C4_Witness ==
    /\ Returned
    /\ dag_bucket_name = {"my-dag-bucket"}
    /\ NewBuckets = {}
    /\ dag_bucket.declared

\* C5: the name given to the managed environment,
\* {project}-{deployment}-{module}-environment, is at most 80 characters long.
C5_EnvironmentNameWithinLimit ==
    mwaa_environment.declared => Len(mwaa_environment.name) <= EnvNameLimit

DeploymentTagValues == {t[2] : t \in {u \in tags : u[1] = "Deployment"}}

\* C6: the Deployment tag value is at most 256 characters long, is a prefix of
\* {project}-{deployment}-{module}, and equals it when that is 256 characters
\* or shorter.
C6_DeploymentTag ==
    pc \notin {"names", "stack"} =>
        LET name == project_name \o "-" \o deployment_name \o "-" \o module_name IN
        /\ Cardinality(DeploymentTagValues) = 1
        /\ \A v \in DeploymentTagValues :
              /\ Len(v) <= TagValueLimit
              /\ IsPrefix(v, name)
              /\ Len(name) <= TagValueLimit => v = name

C6_Witness ==
    /\ Returned
    /\ Len(project_name) + Len(deployment_name) + Len(module_name) + 2 > TagValueLimit
    /\ \E v \in DeploymentTagValues : Len(v) = TagValueLimit

IndexOf(id) == CHOOSE i \in 1..Len(constructs) : constructs[i].id = id

Declared(id) == \E i \in 1..Len(constructs) : constructs[i].id = id

\* C7: for every combination of parameters exactly two creation-order
\* dependencies are recorded on the environment, one on each file-upload
\* deployment, and both deployments are declared before the environment.
C7_TwoDependencies ==
    /\ Returned =>
          /\ Cardinality(mwaa_environment.dependencies) = 2
          /\ mwaa_environment.dependencies =
                {"airflow-dag-plugins", "airflow-dag-requirements"}
    /\ mwaa_environment.declared =>
          /\ Declared("mwaa-environment")
          /\ \A d \in {"airflow-dag-plugins", "airflow-dag-requirements"} :
                Declared(d) /\ IndexOf(d) < IndexOf("mwaa-environment")

C7_Witness ==
    /\ Returned
    /\ Cardinality(mwaa_environment.dependencies) = 2
    /\ dag_bucket.created
    /\ Len(private_subnet_ids) = 0

RoleCount == Cardinality({i \in 1..Len(constructs) : constructs[i].type = "aws_iam.Role"})

Attached ==
    /\ mwaa_service_role.declared
    /\ mwaa_environment.declared
    /\ mwaa_environment.execution_role_arn = mwaa_service_role.role_arn

RoleLifecycleStep ==
    /\ RoleCount' <= 1
    /\ RoleCount <= RoleCount'
    /\ mwaa_service_role.declared =>
          /\ RoleCount' = RoleCount
          /\ IsPrefix(RolePolicy, RolePolicy')
          /\ [mwaa_service_role' EXCEPT !.added_statements =
                 mwaa_service_role.added_statements] = mwaa_service_role
    /\ Attached => Attached' /\ mwaa_service_role' = mwaa_service_role
    /\ mwaa_environment'.declared =>
          mwaa_service_role'.declared /\ Len(mwaa_service_role'.added_statements) = 2
    /\ pc' = "done" => RoleCount' = 1 /\ Attached'

\* C8: the service role is created exactly once, its policy changes only by
\* appending statements, every append happens before the role's ARN is attached
\* to the environment as execution_role_arn, and nothing after the attachment
\* changes the role or its policy.
C8_RoleLifecycle == [][RoleLifecycleStep]_vars

C8_Witness ==
    /\ Returned
    /\ Attached
    /\ RoleCount = 1
    /\ Len(mwaa_service_role.added_statements) = 2

\* C9: subnet_ids of the environment's network configuration are the first two
\* elements of private_subnet_ids in their order; a list shorter than two is
\* taken whole and construction goes on to return.
C9_FirstTwoSubnets ==
    /\ mwaa_network_configuration.declared =>
          LET ids == mwaa_network_configuration.subnet_ids IN
          /\ Len(ids) = Min(2, Len(private_subnet_ids))
          /\ \A i \in 1..Len(ids) : ids[i] = private_subnet_ids[i]
    /\ mwaa_environment.declared =>
          mwaa_environment.network_configuration = mwaa_network_configuration
    /\ pc = "environment" => mwaa_network_configuration.declared

C9_Witness ==
    /\ Returned
    /\ Len(private_subnet_ids) = MaxSubnets
    /\ private_subnet_ids[1] # private_subnet_ids[2]
    /\ Len(mwaa_environment.network_configuration.subnet_ids) = 2

C9_WitnessShort ==
    /\ Returned
    /\ Len(private_subnet_ids) = 1
    /\ mwaa_environment.network_configuration.subnet_ids = private_subnet_ids

\* C10: the statement granting batch:SubmitJob is scoped to the batch service:
\* every ARN pattern in its resources names the batch service and is not the
\* resource pattern of the airflow:PublishMetrics statement.
C10_BatchStatementNamesBatch ==
    mwaa_service_role.declared =>
        \A i \in 1..Len(RolePolicy) :
            Grants(RolePolicy[i], "batch:SubmitJob") =>
                /\ RolePolicy[i].resources # <<>>
                /\ \A r \in Range(RolePolicy[i].resources) :
                      /\ ArnService(r) = "batch"
                      /\ \A j \in 1..Len(RolePolicy) :
                            Grants(RolePolicy[j], "airflow:PublishMetrics") =>
                                r \notin Range(RolePolicy[j].resources)

====
